---- MODULE Spec2Model ----
(***************************************************************************)
(* Model of the document ingestion and retrieval engine of LUMINARY_AI     *)
(* (modules/document_rag_chromadb.py, class ChromaDBRAGTool): the document *)
(* registry (index.json), the stored content files, the ChromaDB           *)
(* collection of chunks, and the tool methods that read and change them.   *)
(*                                                                         *)
(* Python strings are sequences of one-character strings; a document id,   *)
(* a chunk id, a title and a query are such sequences.  The text bodies    *)
(* the tool stores and returns (a document's content, a chunk's text, the  *)
(* context of an answer) are held run-length encoded, Pack(text), and      *)
(* decoded, Unpack, wherever the code reads their characters.              *)
(***************************************************************************)
EXTENDS Integers, Sequences, FiniteSets, TLC

VARIABLES
    index,        \* self.index["documents"]: doc_id -> registry record
    index_file,   \* the registry as last written to index.json
    files,        \* docs_path: doc_id -> content of <doc_id>.txt
    collection,   \* the ChromaDB collection: chunk records, in insertion order
    last,         \* the last tool call: its arguments, result and side calls
    derived,      \* history: content -> the doc_id reported to the last
                  \* add_document call that gave that content and no doc_id,
                  \* kept until a document of that id is deleted
    pending       \* the add_document calls that run as threads of the
                  \* server: thread -> how far the call is, and its locals

vars == <<index, index_file, files, collection, last, derived, pending>>

(***************************************************************************)
(* Strings                                                                 *)
(***************************************************************************)
NL == "\n"
SP == " "

\* Python's None where a string is optional (doc_id, doc_filter), and where
\* a dict is optional (metadata)
None == <<"None">>
NoMetadata == [None |-> TRUE]

\* the empty dict {}
EmptyDict == [k \in {} |-> <<>>]

\* the characters str.strip() and str.split() treat as whitespace
IsSpace(c) == c \in {SP, NL}

Min(a, b) == IF a < b THEN a ELSE b
Max(a, b) == IF a > b THEN a ELSE b

\* s * n
Rep(s, n) == [i \in 1..(n * Len(s)) |-> s[((i - 1) % Len(s)) + 1]]

\* number of occurrences of character c in text t
Count(t, c) == Cardinality({i \in 1..Len(t) : t[i] = c})

\* the elements of a finite set of integers, ascending
RECURSIVE Ascending(_)
Ascending(S) ==
    IF S = {} THEN <<>>
    ELSE LET m == CHOOSE x \in S : \A y \in S : x <= y
         IN  <<m>> \o Ascending(S \ {m})

\* str.split("\n\n"): the text between successive non-overlapping
\* separators, scanning left to right; always at least one piece
FirstSep(t, from) ==
    LET S == {i \in from..(Len(t) - 1) : t[i] = NL /\ t[i + 1] = NL}
    IN  IF S = {} THEN 0 ELSE CHOOSE i \in S : \A j \in S : i <= j

RECURSIVE SplitFrom(_, _)
SplitFrom(t, from) ==
    LET i == FirstSep(t, from)
    IN  IF i = 0 THEN <<SubSeq(t, from, Len(t))>>
        ELSE <<SubSeq(t, from, i - 1)>> \o SplitFrom(t, i + 2)

SplitParagraphs(t) == SplitFrom(t, 1)

\* str.strip()
RECURSIVE LStrip(_)
LStrip(t) == IF t # <<>> /\ IsSpace(Head(t)) THEN LStrip(Tail(t)) ELSE t

RECURSIVE RStrip(_)
RStrip(t) ==
    IF t # <<>> /\ IsSpace(t[Len(t)]) THEN RStrip(SubSeq(t, 1, Len(t) - 1)) ELSE t

Strip(t) == LStrip(RStrip(t))

\* str.split(): the maximal runs of non-whitespace characters, in order
Words(t) ==
    LET starts == {i \in 1..Len(t) :
                      ~IsSpace(t[i]) /\ (i = 1 \/ IsSpace(t[i - 1]))}
        ends   == {i \in 1..Len(t) :
                      ~IsSpace(t[i]) /\ (i = Len(t) \/ IsSpace(t[i + 1]))}
        s == Ascending(starts)
        e == Ascending(ends)
    IN  [k \in 1..Len(s) |-> SubSeq(t, s[k], e[k])]

\* " ".join(ws)
RECURSIVE Join(_)
Join(ws) ==
    IF ws = <<>> THEN <<>>
    ELSE IF Len(ws) = 1 THEN ws[1]
    ELSE ws[1] \o <<SP>> \o Join(Tail(ws))

\* the decimal digits of n >= 0, as str(n) writes them
DigitChar(d) == <<"0", "1", "2", "3", "4", "5", "6", "7", "8", "9">>[d + 1]

RECURSIVE Str(_)
Str(n) == IF n < 10 THEN <<DigitChar(n)>>
          ELSE Str(n \div 10) \o <<DigitChar(n % 10)>>

\* a text as its runs of equal characters, and back
Pack(t) ==
    LET starts == Ascending({i \in 1..Len(t) : i = 1 \/ t[i] # t[i - 1]})
        stop(k) == IF k = Len(starts) THEN Len(t) ELSE starts[k + 1] - 1
    IN  [k \in 1..Len(starts) |->
            [ch |-> t[starts[k]], n |-> stop(k) - starts[k] + 1]]

RECURSIVE Unpack(_)
Unpack(p) ==
    IF p = <<>> THEN <<>>
    ELSE Rep(<<p[1].ch>>, p[1].n) \o Unpack(Tail(p))

\* p + q on encoded texts: the runs that meet are merged when equal
PConcat(p, q) ==
    IF p = <<>> THEN q
    ELSE IF q = <<>> THEN p
    ELSE IF p[Len(p)].ch = q[1].ch
    THEN SubSeq(p, 1, Len(p) - 1)
            \o <<[ch |-> q[1].ch, n |-> p[Len(p)].n + q[1].n]>> \o Tail(q)
    ELSE p \o q

\* len(p) and p[:n] on an encoded text
RECURSIVE PLen(_)
PLen(p) == IF p = <<>> THEN 0 ELSE p[1].n + PLen(Tail(p))

RECURSIVE PPrefix(_, _)
PPrefix(p, n) ==
    IF p = <<>> \/ n <= 0 THEN <<>>
    ELSE IF p[1].n >= n THEN <<[ch |-> p[1].ch, n |-> n]>>
    ELSE <<p[1]>> \o PPrefix(Tail(p), n - p[1].n)

\* needle in haystack (substring test)
Contains(haystack, needle) ==
    \E i \in 0..(Len(haystack) - Len(needle)) :
        SubSeq(haystack, i + 1, i + Len(needle)) = needle

(***************************************************************************)
(* _chunk_text                                                             *)
(***************************************************************************)
DefaultChunkSize == 500
DefaultOverlap == 100

\* words[-overlap//5:] if len(words) > overlap//5 else "": Python parses
\* -overlap//5 as (-overlap)//5, the floor of a negative quotient, so the
\* slice starts ceil(overlap/5) words from the end (0 meaning the start)
OverlapText(current_chunk, overlap) ==
    LET words == Words(current_chunk)
        k     == (overlap + 4) \div 5
        from  == IF k = 0 THEN 1 ELSE Max(1, Len(words) - k + 1)
    IN  IF Len(words) > overlap \div 5
        THEN Join(SubSeq(words, from, Len(words)))
        ELSE <<>>

\* a chunk record that keeps the first half of the chunk only
ChunkRecordHalved(chunk_index, current_chunk) ==
    [chunk_id |-> chunk_index,
     text     |-> Strip(SubSeq(current_chunk, 1, Len(current_chunk) \div 2)),
     length   |-> Len(current_chunk)]

ChunkRecord(chunk_index, current_chunk) ==
    [chunk_id |-> chunk_index,
     text     |-> Strip(current_chunk),
     length   |-> Len(current_chunk)]

\* the loop over paragraphs, from paragraph p on, then the final flush
RECURSIVE ChunkLoop(_, _, _, _, _, _)
ChunkLoop(paragraphs, p, chunks, current_chunk, chunk_size, overlap) ==
    IF p > Len(paragraphs)
    THEN IF current_chunk # <<>>
         THEN Append(chunks, ChunkRecord(Len(chunks), current_chunk))
         ELSE chunks
    ELSE LET para == paragraphs[p]
         IN  IF Len(current_chunk) + Len(para) <= chunk_size
             THEN ChunkLoop(paragraphs, p + 1, chunks,
                            current_chunk \o para \o <<NL, NL>>,
                            chunk_size, overlap)
             ELSE IF current_chunk # <<>>
             THEN ChunkLoop(paragraphs, p + 1,
                            Append(chunks, ChunkRecord(Len(chunks), current_chunk)),
                            OverlapText(current_chunk, overlap)
                                \o <<NL>> \o para \o <<NL, NL>>,
                            chunk_size, overlap)
             ELSE ChunkLoop(paragraphs, p + 1, chunks,
                            para \o <<NL, NL>>, chunk_size, overlap)

\* a chunking that leaves out the chunk still open when the text ends
ChunkTextUnflushed(text, chunk_size, overlap) ==
    LET paragraphs == SplitParagraphs(text)
    IN  ChunkLoop(SubSeq(paragraphs, 1, Len(paragraphs) - 1), 1, <<>>, <<>>,
                  chunk_size, overlap)

ChunkText(text, chunk_size, overlap) ==
    ChunkLoop(SplitParagraphs(text), 1, <<>>, <<>>, chunk_size, overlap)

(***************************************************************************)
(* DocumentProcessor.chunk_text (modules/document_processor.py)            *)
(***************************************************************************)
\* a window is kept whatever is left of it
KeepChunkAlways(chunk) == TRUE

\* if chunk: the stripped window is kept when it is not empty
KeepChunk(chunk) == chunk # <<>>

\* the while loop over windows, from offset start (0-based) on
RECURSIVE FixedLoop(_, _, _, _, _)
FixedLoop(text, start, chunks, chunk_size, overlap) ==
    LET end    == Min(start + chunk_size, Len(text))
        chunk  == Strip(SubSeq(text, start + 1, end))
        chunks2 == IF KeepChunk(chunk) THEN Append(chunks, chunk) ELSE chunks
    IN  IF end >= Len(text) THEN chunks2
        ELSE FixedLoop(text, end - overlap, chunks2, chunk_size, overlap)

\* chunk_text(text, chunk_size, overlap), for overlap < chunk_size
FixedChunkText(text, chunk_size, overlap) ==
    IF text = <<>> \/ Strip(text) = <<>> THEN <<>>
    ELSE FixedLoop(text, 0, <<>>, chunk_size, overlap)

\* a next window that starts where the last one ended
NextStartAtEnd(end, overlap) == end

\* start = end - overlap
NextStart(end, overlap) == end - overlap

\* the slices text[start:end] the while loop takes, from offset start on
RECURSIVE FixedWindowsLoop(_, _, _, _, _)
FixedWindowsLoop(text, start, windows, chunk_size, overlap) ==
    LET end      == Min(start + chunk_size, Len(text))
        windows2 == Append(windows, [start |-> start, end |-> end])
    IN  IF end >= Len(text) THEN windows2
        ELSE FixedWindowsLoop(text, NextStart(end, overlap), windows2,
                              chunk_size, overlap)

\* the slices of a call of chunk_text: none when the text is empty or blank
FixedWindows(text, chunk_size, overlap) ==
    IF text = <<>> \/ Strip(text) = <<>> THEN <<>>
    ELSE FixedWindowsLoop(text, 0, <<>>, chunk_size, overlap)

(***************************************************************************)
(* Inputs                                                                  *)
(***************************************************************************)
\* number of values the truncated content hash can take
HashSpace == 2
\* largest top_k a caller asks for
MaxTopK == 2
\* most documents the registry holds at a time
MaxDocs == 2

D1 == <<"d", "1">>
D2 == <<"d", "2">>

ParaA == Rep(<<"a">>, 250)
\* five paragraphs, none of which fits next to another in one chunk
LongText ==
    Pack(ParaA \o <<NL, NL>> \o ParaA \o <<NL, NL>> \o ParaA \o <<NL, NL>>
               \o ParaA \o <<NL, NL>> \o ParaA)
\* two short paragraphs: one chunk
ShortText == Pack(<<"a", NL, NL, "b">>)
OtherText == Pack(<<"b", SP, "b">>)

Contents == {LongText, ShortText, OtherText}

\* the add_document calls the callers make
AddRequests ==
    { [content |-> ShortText, title |-> <<"T">>, metadata |-> NoMetadata, doc_id |-> D1,
       now |-> 1],
      [content |-> OtherText, title |-> <<"U">>, metadata |-> NoMetadata, doc_id |-> D1,
       now |-> 2],
      [content |-> LongText,  title |-> <<"T">>, metadata |-> NoMetadata, doc_id |-> None,
       now |-> 1],
      [content |-> LongText,  title |-> <<"U">>,
       metadata |-> [source |-> <<"w", "e", "b">>], doc_id |-> None, now |-> 2],
      [content |-> ShortText, title |-> <<"T">>,
       metadata |-> [doc_id |-> D1], doc_id |-> None, now |-> 3],
      [content |-> OtherText, title |-> <<"U">>, metadata |-> NoMetadata, doc_id |-> <<>>,
       now |-> 2] }

\* the texts handed to the chunkers: up to MaxParas paragraphs joined by
\* blank lines; a paragraph is empty, blank, one word or several, and short
\* or long next to the chunk sizes
MaxParas == 3

Paragraphs ==
    { <<>>, <<SP>>, <<"a">>, <<"b", "b">>, <<"a", SP, "b">>,
      <<"c", "c", "c">>, <<SP, "a", NL, "b">> }

RECURSIVE TextsOf(_)
TextsOf(n) ==
    IF n = 1 THEN Paragraphs
    ELSE LET shorter == TextsOf(n - 1)
         IN  shorter \cup {t \o <<NL, NL>> \o para :
                              t \in shorter, para \in Paragraphs}

Texts == TextsOf(MaxParas)

\* the chunk_size and overlap the chunkers are called with
ChunkSizes == {2, 3, 5}
Overlaps == {0, 1, 2, 5, 10}

(***************************************************************************)
(* External capabilities                                                   *)
(***************************************************************************)
\* hashlib.md5(content.encode()).hexdigest()[:16]: a digest of the content
\* alone, cut to a fixed width, so that different contents can share it
CharCode(c) == IF c = "a" THEN 1 ELSE IF c = "b" THEN 2 ELSE IF c = SP THEN 3 ELSE 4

RECURSIVE Digest(_)
Digest(content) ==
    IF content = <<>> THEN 0
    ELSE content[1].n * CharCode(content[1].ch) + Digest(Tail(content))

\* a digest that also depends on what is stored when the call is made
GenerateDocIdSalted(content) ==
    <<"h">> \o Str((Digest(content) + Len(collection)) % HashSpace)

GenerateDocId(content) == <<"h">> \o Str(Digest(content) % HashSpace)

\* SentenceTransformer.encode of one text: deterministic, a function of the
\* text alone (one coordinate stands for the vector)
Encode(text) == Count(text, "b")

\* the queries and questions the callers send
Queries == {<<"a">>, <<"b">>}

\* the collection's distance between two embeddings (squared L2)
Distance(e1, e2) == (e1 - e2) * (e1 - e2)

\* every document id a caller names
DocIds == {<<>>, D1, D2} \cup {GenerateDocId(c) : c \in Contents}

(***************************************************************************)
(* The ChromaDB collection                                                 *)
(***************************************************************************)
ChunkIds(coll) == {coll[i].id : i \in 1..Len(coll)}

\* collection.add(ids, embeddings, documents, metadatas) where no id is
\* already stored, and where some are and the library skips those
CollectionAdd(coll, records) ==
    coll \o SelectSeq(records, LAMBDA c : c.id \notin ChunkIds(coll))

\* collection.get(where={"doc_id": doc_id})["ids"]
CollectionGetIds(coll, doc_id) ==
    LET hits == SelectSeq(coll, LAMBDA c : c.metadata.doc_id = doc_id)
    IN  [i \in 1..Len(hits) |-> hits[i].id]

\* collection.delete(ids=chunk_ids)
CollectionDelete(coll, chunk_ids) ==
    SelectSeq(coll, LAMBDA c : \A i \in 1..Len(chunk_ids) : chunk_ids[i] # c.id)

\* collection.query(query_embeddings=[e], n_results=n, where=w): the n
\* nearest of the chunks that match w, nearest first; chunks at the same
\* distance come in the order they were added
CollectionQuery(coll, query_embedding, n_results, where) ==
    LET cand == IF where = None THEN coll
                ELSE SelectSeq(coll, LAMBDA c : c.metadata.doc_id = where)
        dist == [i \in 1..Len(cand) |-> Distance(query_embedding, cand[i].embedding)]
        rank == [i \in 1..Len(cand) |->
                    1 + Cardinality({j \in 1..Len(cand) :
                          dist[j] < dist[i] \/ (dist[j] = dist[i] /\ j < i)})]
        at == [r \in 1..Min(n_results, Len(cand)) |->
                  CHOOSE i \in 1..Len(cand) : rank[i] = r]
    IN  [r \in 1..Min(n_results, Len(cand)) |->
            [id       |-> cand[at[r]].id,
             document |-> cand[at[r]].document,
             metadata |-> cand[at[r]].metadata,
             distance |-> dist[at[r]]]]

(***************************************************************************)
(* add_document                                                            *)
(***************************************************************************)
\* metadata or {}
OrEmpty(metadata) == IF metadata = NoMetadata THEN EmptyDict ELSE metadata

\* doc_id = self._generate_doc_id(content) if doc_id is None
ResolveDocId(doc_id, content) ==
    IF doc_id = None THEN GenerateDocId(content) ELSE doc_id

\* the existence check left out
AlreadyExistsNever(doc_id) == FALSE

\* doc_id in self.index["documents"]
AlreadyExists(doc_id) == doc_id \in DOMAIN index

\* {"doc_id": .., "title": .., "chunk_index": .., "length": .., **(metadata or {})}:
\* a key of the caller's metadata replaces the key written before it
ChunkMetadata(doc_id, title, chunk, metadata) ==
    LET own   == [doc_id |-> doc_id, title |-> title,
                  chunk_index |-> chunk.chunk_id, length |-> chunk.length]
        extra == OrEmpty(metadata)
    IN  [k \in DOMAIN own \cup DOMAIN extra |->
            IF k \in DOMAIN extra THEN extra[k] ELSE own[k]]

\* f"{doc_id}_{chunk['chunk_id']}"
ChunkId(doc_id, chunk_index) == doc_id \o <<"_">> \o Str(chunk_index)

\* chunks = self._chunk_text(content) with the embedding of each chunk's
\* text, for each content the callers send
EmbeddedChunks ==
    [content \in Contents |->
        LET chunks == ChunkText(Unpack(content), DefaultChunkSize, DefaultOverlap)
        IN  [i \in 1..Len(chunks) |->
                [chunk_id  |-> chunks[i].chunk_id,
                 text      |-> Pack(chunks[i].text),
                 length    |-> chunks[i].length,
                 embedding |-> Encode(chunks[i].text)]]]

\* len(content.split()) for each content the callers send
WordCount == [content \in Contents |-> Len(Words(Unpack(content)))]

\* what add_document hands to collection.add, one record per chunk
ChunkRecords(doc_id, title, metadata, chunks) ==
    [i \in 1..Len(chunks) |->
        [id        |-> ChunkId(doc_id, chunks[i].chunk_id),
         embedding |-> chunks[i].embedding,
         document  |-> chunks[i].text,
         metadata  |-> ChunkMetadata(doc_id, title, chunks[i], metadata)]]

\* datetime.isoformat(): the reading of the clock as a string
IsoFormat(now) == <<"t">> \o Str(now)

\* a registry entry whose added_at is taken from a clock that stands still
RegistryEntryUndated(doc_id, title, metadata, chunks, content, now) ==
    [doc_id      |-> doc_id,
     title       |-> title,
     metadata    |-> OrEmpty(metadata),
     added_at    |-> IsoFormat(0),
     chunk_count |-> Len(chunks),
     char_count  |-> PLen(content),
     word_count  |-> WordCount[content]]

\* now is what datetime.now() reads while the call is served
RegistryEntry(doc_id, title, metadata, chunks, content, now) ==
    [doc_id      |-> doc_id,
     title       |-> title,
     metadata    |-> OrEmpty(metadata),
     added_at    |-> IsoFormat(now),
     chunk_count |-> Len(chunks),
     char_count  |-> PLen(content),
     word_count  |-> WordCount[content]]

Put(map, key, value) ==
    [k \in DOMAIN map \cup {key} |-> IF k = key THEN value ELSE map[k]]

Remove(map, key) == [k \in DOMAIN map \ {key} |-> map[k]]

Call(op, args, result, raised, searches, generations) ==
    [op |-> op, args |-> args, result |-> result, raised |-> raised,
     searches |-> searches, generations |-> generations]

\* the history after a call that reported doc_id for request r
Reported(r, doc_id) ==
    IF r.doc_id = None THEN Put(derived, r.content, doc_id) ELSE derived

\* add_document(content, title, metadata, doc_id); add_raises is how the
\* installed ChromaDB treats an id that is already stored: it raises, or it
\* skips that record
AddDocument ==
    /\ UNCHANGED pending
    /\ \E r \in AddRequests, add_raises \in BOOLEAN :
        LET doc_id == ResolveDocId(r.doc_id, r.content)
            chunks == EmbeddedChunks[r.content]
            records == ChunkRecords(doc_id, r.title, r.metadata, chunks)
            clash == \E i \in 1..Len(records) : records[i].id \in ChunkIds(collection)
        IN  IF AlreadyExists(doc_id)
            THEN /\ last' = Call("add_document", r,
                                 [success |-> FALSE, doc_id |-> doc_id,
                                  message |-> <<"Document already exists">>,
                                  existing |-> TRUE],
                                 FALSE, 0, 0)
                 /\ derived' = Reported(r, doc_id)
                 /\ UNCHANGED <<index, index_file, files, collection>>
            ELSE /\ Cardinality(DOMAIN index) < MaxDocs
                 /\ files' = Put(files, doc_id, r.content)
                 /\ IF clash /\ add_raises
                    THEN /\ last' = Call("add_document", r, EmptyDict, TRUE, 0, 0)
                         /\ UNCHANGED <<index, index_file, collection, derived>>
                    ELSE /\ collection' = CollectionAdd(collection, records)
                         /\ index' = Put(index, doc_id,
                                RegistryEntry(doc_id, r.title, r.metadata, chunks, r.content,
                                              r.now))
                         /\ index_file' = index'
                         /\ last' = Call("add_document", r,
                                [success |-> TRUE, doc_id |-> doc_id, title |-> r.title,
                                 chunks_created |-> Len(chunks),
                                 message |-> <<"Document '">> \o r.title
                                                \o <<"' added successfully">>],
                                FALSE, 0, 0)
                         /\ derived' = Reported(r, doc_id)

(***************************************************************************)
(* search_documents                                                        *)
(***************************************************************************)
\* the distance passed on as the similarity
SimilarityRaw(distance) == distance

\* "similarity": 1 - results['distances'][0][i]
Similarity(distance) == 1 - distance

\* where_filter: set only if doc_filter is truthy (neither None nor "")
WhereFilter(doc_filter) ==
    IF doc_filter # None /\ doc_filter # <<>> THEN doc_filter ELSE None

FormatResult(hit) ==
    [chunk_id   |-> hit.id,
     doc_id     |-> hit.metadata.doc_id,
     text       |-> hit.document,
     similarity |-> Similarity(hit.distance),
     doc_title  |-> hit.metadata.title]

SearchDocuments(query, top_k, doc_filter) ==
    LET results == CollectionQuery(collection, Encode(query), top_k,
                                   WhereFilter(doc_filter))
        formatted_results == [i \in 1..Len(results) |-> FormatResult(results[i])]
    IN  [success        |-> TRUE,
         query          |-> query,
         results_count  |-> Len(formatted_results),
         total_searched |-> Len(collection),
         results        |-> formatted_results]

Search ==
    \E query \in Queries, top_k \in 1..MaxTopK, doc_filter \in DocIds \cup {None} :
        /\ last' = Call("search_documents",
                        [query |-> query, top_k |-> top_k, doc_filter |-> doc_filter],
                        SearchDocuments(query, top_k, doc_filter), FALSE, 1, 0)
        /\ UNCHANGED <<index, index_file, files, collection, derived, pending>>

(***************************************************************************)
(* query_document                                                          *)
(***************************************************************************)
\* "\n\n".join(texts)
RECURSIVE JoinParagraphs(_)
JoinParagraphs(texts) ==
    IF texts = <<>> THEN <<>>
    ELSE IF Len(texts) = 1 THEN texts[1]
    ELSE PConcat(PConcat(texts[1], Pack(<<NL, NL>>)), JoinParagraphs(Tail(texts)))

QueryTopK == 3
ContextPrefix == 500

\* a not-found message that leaves the document id out
NotFoundMessageGeneric(doc_id) == <<"Document not found">>

\* f"Document {doc_id} not found"
NotFoundMessage(doc_id) == <<"Document ">> \o doc_id \o <<" not found">>
NoContentMessage == <<"No relevant content found in document">>

\* the answer: the generated text, or on any exception of the generation
\* call the error text followed by context[:500]
Answer(context, generation_ok) ==
    IF generation_ok
    THEN [generated |-> TRUE, text |-> <<"response.text">>, context |-> <<>>]
    ELSE [generated |-> FALSE,
          text |-> <<"Error generating answer: ", "Relevant context found:">>,
          context |-> PPrefix(context, ContextPrefix)]

\* the three returns of query_document: the document is not registered;
\* the scoped search found nothing; an answer (generated or not) with the
\* chunks found
\* a not-found return that does not say which document
QueryNotFoundGeneric(doc_id, args) ==
    Call("query_document", args,
         [success |-> FALSE, message |-> <<"Document not found">>],
         FALSE, 0, 0)

QueryNotFound(doc_id, args) ==
    Call("query_document", args,
         [success |-> FALSE, message |-> NotFoundMessage(doc_id)],
         FALSE, 0, 0)

\* an empty search that goes on to the generation call
QueryNoContentGenerates(args) ==
    Call("query_document", args,
         [success   |-> TRUE,
          doc_id    |-> args.doc_id,
          doc_title |-> index[args.doc_id].title,
          question  |-> args.question,
          answer    |-> Answer(<<>>, args.generation_ok),
          sources   |-> <<>>],
         FALSE, 1, 1)

QueryNoContent(args) ==
    Call("query_document", args,
         [success |-> FALSE, message |-> NoContentMessage],
         FALSE, 1, 0)

\* a failed generation that returns without the chunks found
QueryAnsweredWithoutSources(args, results, context) ==
    Call("query_document", args,
         [success   |-> TRUE,
          doc_id    |-> args.doc_id,
          doc_title |-> index[args.doc_id].title,
          question  |-> args.question,
          answer    |-> Answer(context, args.generation_ok),
          sources   |-> IF args.generation_ok THEN results ELSE <<>>],
         FALSE, 1, 1)

QueryAnswered(args, results, context) ==
    Call("query_document", args,
         [success   |-> TRUE,
          doc_id    |-> args.doc_id,
          doc_title |-> index[args.doc_id].title,
          question  |-> args.question,
          answer    |-> Answer(context, args.generation_ok),
          sources   |-> results],
         FALSE, 1, 1)

\* query_document(doc_id, question): the call record it leaves, with the
\* number of searches and generation calls it made; generation_ok is
\* whether the generation call returns or throws
QueryDocumentCall(doc_id, question, generation_ok) ==
    LET args == [doc_id |-> doc_id, question |-> question,
                 generation_ok |-> generation_ok]
        search_results == SearchDocuments(question, QueryTopK, doc_id)
        context == JoinParagraphs([i \in 1..Len(search_results.results) |->
                                      search_results.results[i].text])
    IN  IF doc_id \notin DOMAIN index
        THEN QueryNotFound(doc_id, args)
        ELSE IF search_results.results = <<>>
        THEN QueryNoContent(args)
        ELSE QueryAnswered(args, search_results.results, context)

QueryDocument ==
    \E doc_id \in DocIds, question \in Queries, generation_ok \in BOOLEAN :
        /\ last' = QueryDocumentCall(doc_id, question, generation_ok)
        /\ UNCHANGED <<index, index_file, files, collection, derived, pending>>

(***************************************************************************)
(* QueryDocumentTool._run (modules/document_rag_langchain.py)              *)
(***************************************************************************)
\* the keys _run reads from each source: source['similarity'] and
\* source['preview']
SourceKeysRead == {"similarity", "preview"}

\* _run(doc_id, question): the string it returns, by its parts, or the
\* KeyError of a source that lacks a key it reads
QueryDocumentToolCall(doc_id, question, generation_ok) ==
    LET args   == [doc_id |-> doc_id, question |-> question,
                   generation_ok |-> generation_ok]
        call   == QueryDocumentCall(doc_id, question, generation_ok)
        result == call.result
    IN  IF ~result.success
        THEN Call("QueryDocumentTool", args,
                  [failed |-> TRUE, message |-> result.message],
                  FALSE, call.searches, call.generations)
        ELSE IF \E i \in 1..Len(result.sources) :
                   ~(SourceKeysRead \subseteq DOMAIN result.sources[i])
        THEN Call("QueryDocumentTool", args, EmptyDict, TRUE,
                  call.searches, call.generations)
        ELSE Call("QueryDocumentTool", args,
                  [failed    |-> FALSE,
                   document  |-> result.doc_title,
                   question  |-> result.question,
                   answer    |-> result.answer,
                   used      |-> Len(result.sources),
                   citations |-> [i \in 1..Len(result.sources) |->
                                     [similarity |-> result.sources[i].similarity,
                                      preview    |-> result.sources[i].preview]]],
                  FALSE, call.searches, call.generations)

QueryDocumentToolRun ==
    \E doc_id \in DocIds, question \in Queries, generation_ok \in BOOLEAN :
        /\ last' = QueryDocumentToolCall(doc_id, question, generation_ok)
        /\ UNCHANGED <<index, index_file, files, collection, derived, pending>>

(***************************************************************************)
(* delete_document                                                         *)
(***************************************************************************)
DeleteDocument ==
    /\ UNCHANGED pending
    /\ \E doc_id \in DocIds :
        IF doc_id \notin DOMAIN index
        THEN /\ last' = Call("delete_document", [doc_id |-> doc_id],
                             [success |-> FALSE, message |-> NotFoundMessage(doc_id)],
                             FALSE, 0, 0)
             /\ UNCHANGED <<index, index_file, files, collection, derived>>
        ELSE LET chunk_ids == CollectionGetIds(collection, doc_id)
                 doc_title == index[doc_id].title
             IN  /\ collection' = CollectionDelete(collection, chunk_ids)
                 /\ files' = Remove(files, doc_id)
                 /\ index' = Remove(index, doc_id)
                 /\ index_file' = index'
                 /\ last' = Call("delete_document", [doc_id |-> doc_id],
                                 [success |-> TRUE, doc_id |-> doc_id,
                                  title |-> doc_title,
                                  chunks_deleted |-> Len(chunk_ids),
                                  message |-> <<"Document '">> \o doc_title
                                                 \o <<"' deleted successfully">>],
                                 FALSE, 0, 0)
                 /\ derived' = [c \in {x \in DOMAIN derived : derived[x] # doc_id}
                                    |-> derived[c]]

(***************************************************************************)
(* get_document and compare_documents                                      *)
(***************************************************************************)
FileNotFoundMessage == <<"Document file not found">>

\* get_document(doc_id): the result it returns; it changes nothing
GetDocument(doc_id) ==
    IF doc_id \notin DOMAIN index
    THEN [success |-> FALSE, message |-> NotFoundMessage(doc_id)]
    ELSE IF doc_id \notin DOMAIN files
    THEN [success |-> FALSE, message |-> FileNotFoundMessage]
    ELSE LET doc_info == index[doc_id]
         IN  [success  |-> TRUE,
              doc_id   |-> doc_id,
              title    |-> doc_info.title,
              content  |-> files[doc_id],
              metadata |-> doc_info.metadata,
              added_at |-> doc_info.added_at,
              stats    |-> [chunks     |-> doc_info.chunk_count,
                            characters |-> doc_info.char_count,
                            words      |-> doc_info.word_count,
                            added_at   |-> doc_info.added_at]]

GetDocumentCall ==
    \E doc_id \in DocIds :
        /\ last' = Call("get_document", [doc_id |-> doc_id],
                        GetDocument(doc_id), FALSE, 0, 0)
        /\ UNCHANGED <<index, index_file, files, collection, derived, pending>>

\* the comparison text: the generated text, or on any exception of the
\* generation call the error text followed by both documents' word and
\* chunk counts
Comparison(doc1_result, doc2_result, generation_ok) ==
    IF generation_ok
    THEN [generated |-> TRUE, text |-> <<"response.text">>]
    ELSE [generated |-> FALSE,
          text |-> <<"Error generating comparison: ", "Basic comparison:">>,
          doc1 |-> [words |-> doc1_result.stats.words,
                    chunks |-> doc1_result.stats.chunks],
          doc2 |-> [words |-> doc2_result.stats.words,
                    chunks |-> doc2_result.stats.chunks]]

CompareFirstMissing(args) ==
    Call("compare_documents", args,
         [success |-> FALSE,
          message |-> <<"Document 1 not found: ">> \o args.doc_id1],
         FALSE, 0, 0)

\* a second-document failure that names the first document
CompareSecondMissingNamesFirst(args) ==
    Call("compare_documents", args,
         [success |-> FALSE,
          message |-> <<"Document 2 not found: ">> \o args.doc_id1],
         FALSE, 0, 0)

CompareSecondMissing(args) ==
    Call("compare_documents", args,
         [success |-> FALSE,
          message |-> <<"Document 2 not found: ">> \o args.doc_id2],
         FALSE, 0, 0)

\* compare_documents(doc_id1, doc_id2): the call record it leaves;
\* generation_ok is whether the generation call returns or throws
CompareDocumentsCall(doc_id1, doc_id2, generation_ok) ==
    LET args == [doc_id1 |-> doc_id1, doc_id2 |-> doc_id2,
                 generation_ok |-> generation_ok]
        doc1_result == GetDocument(doc_id1)
        doc2_result == GetDocument(doc_id2)
    IN  IF ~doc1_result.success
        THEN CompareFirstMissing(args)
        ELSE IF ~doc2_result.success
        THEN CompareSecondMissing(args)
        ELSE Call("compare_documents", args,
                  [success    |-> TRUE,
                   doc1       |-> [id |-> doc_id1, title |-> doc1_result.title],
                   doc2       |-> [id |-> doc_id2, title |-> doc2_result.title],
                   comparison |-> Comparison(doc1_result, doc2_result,
                                             generation_ok)],
                  FALSE, 0, 1)

CompareDocuments ==
    \E doc_id1 \in DocIds, doc_id2 \in DocIds, generation_ok \in BOOLEAN :
        /\ last' = CompareDocumentsCall(doc_id1, doc_id2, generation_ok)
        /\ UNCHANGED <<index, index_file, files, collection, derived, pending>>

(***************************************************************************)
(* semantic_search_all                                                     *)
(***************************************************************************)
\* the running maximum the grouping loop keeps for one document
RECURSIVE MaxSimilarity(_)
MaxSimilarity(chunks) ==
    IF Len(chunks) = 1 THEN chunks[1].similarity
    ELSE LET rest == MaxSimilarity(SubSeq(chunks, 1, Len(chunks) - 1))
             s == chunks[Len(chunks)].similarity
         IN  IF s > rest THEN s ELSE rest

\* doc_groups.values(): one group per doc_id, in order of first appearance
DocGroups(results) ==
    LET first == Ascending({i \in 1..Len(results) :
                     \A j \in 1..(i - 1) : results[j].doc_id # results[i].doc_id})
        group(i) ==
            LET top_chunks == SelectSeq(results,
                                  LAMBDA x : x.doc_id = results[i].doc_id)
            IN  [doc_id         |-> results[i].doc_id,
                 title          |-> results[i].doc_title,
                 max_similarity |-> MaxSimilarity(top_chunks),
                 chunk_count    |-> Len(top_chunks),
                 top_chunks     |-> top_chunks]
    IN  [g \in 1..Len(first) |-> group(first[g])]

\* sorted(groups, key=max_similarity, reverse=True)[:top_k]; the sort is
\* stable, so groups of equal max_similarity keep their order
SortGroups(groups, top_k) ==
    LET rank(i) == 1 + Cardinality({j \in 1..Len(groups) :
                          \/ groups[j].max_similarity > groups[i].max_similarity
                          \/ /\ groups[j].max_similarity = groups[i].max_similarity
                             /\ j < i})
        at == [r \in 1..Len(groups) |-> CHOOSE i \in 1..Len(groups) : rank(i) = r]
    IN  [r \in 1..Min(top_k, Len(groups)) |-> groups[at[r]]]

\* a grouped search that asks for top_k chunks only
OversampleNone(top_k) == top_k

\* search_documents(query, top_k=top_k * 2)
Oversample(top_k) == top_k * 2

SemanticSearchAll(query, top_k) ==
    LET results == SearchDocuments(query, Oversample(top_k), None)
        documents == SortGroups(DocGroups(results.results), top_k)
    IN  IF results.results = <<>>
        THEN [success |-> TRUE, query |-> query, documents |-> <<>>]
        ELSE [success |-> TRUE, query |-> query, documents |-> documents,
              total_docs_found |-> Len(documents)]

SearchAll ==
    \E query \in Queries, top_k \in 1..MaxTopK :
        /\ last' = Call("semantic_search_all", [query |-> query, top_k |-> top_k],
                        SemanticSearchAll(query, top_k), FALSE, 1, 0)
        /\ UNCHANGED <<index, index_file, files, collection, derived, pending>>

(***************************************************************************)
(* GeminiReasoningEngine._answer_document_question                         *)
(* (modules/reasoning_engine.py)                                           *)
(***************************************************************************)
\* str.split('\n'): the text between successive newlines; always at least
\* one piece
SplitLines(t) ==
    LET cuts == Ascending({i \in 1..Len(t) : t[i] = NL})
    IN  [k \in 1..(Len(cuts) + 1) |->
            SubSeq(t,
                   IF k = 1 THEN 1 ELSE cuts[k - 1] + 1,
                   IF k > Len(cuts) THEN Len(t) ELSE cuts[k] - 1)]

\* sep.join(parts)
RECURSIVE JoinWith(_, _)
JoinWith(parts, sep) ==
    IF parts = <<>> THEN <<>>
    ELSE IF Len(parts) = 1 THEN parts[1]
    ELSE parts[1] \o sep \o JoinWith(Tail(parts), sep)

\* str.lower(), for the letters the texts are written with
LowerChar(c) ==
    CASE c = "T" -> "t"
      [] c = "A" -> "a"
      [] c = "X" -> "x"
      [] c = "L" -> "l"
      [] c = "W" -> "w"
      [] OTHER   -> c

\* (\o <<>> makes the result a sequence written out, not a rule applied
\* anew at every character read)
Lower(t) == [i \in 1..Len(t) |-> LowerChar(t[i])] \o <<>>

\* set(text.lower().split())
WordSet(t) == LET words == Words(Lower(t)) IN {words[k] : k \in 1..Len(words)}

\* _chunk_document: the loop over the lines, from line p on, then the chunk
\* still open when the text ends
RECURSIVE ChunkDocumentLoop(_, _, _, _, _, _)
ChunkDocumentLoop(paragraphs, p, chunks, current_chunk, current_length, chunk_size) ==
    IF p > Len(paragraphs)
    THEN IF current_chunk # <<>> THEN Append(chunks, Strip(current_chunk))
         ELSE chunks
    ELSE LET paragraph   == paragraphs[p]
             para_length == Len(paragraph)
         IN  IF current_length + para_length + 2 <= chunk_size
             THEN ChunkDocumentLoop(paragraphs, p + 1, chunks,
                                    current_chunk \o paragraph \o <<NL, NL>>,
                                    current_length + para_length + 2, chunk_size)
             ELSE ChunkDocumentLoop(paragraphs, p + 1,
                                    IF current_chunk # <<>>
                                    THEN Append(chunks, Strip(current_chunk))
                                    ELSE chunks,
                                    paragraph \o <<NL, NL>>,
                                    para_length + 2, chunk_size)

ChunkDocument(text, chunk_size) ==
    ChunkDocumentLoop(SplitLines(text), 1, <<>>, <<>>, 0, chunk_size)

\* chunk_size=1500 and chunk_scores[:3] of _answer_document_question
QaChunkSize == 1500
QaTopChunks == 3
ExcerptSeparator == <<NL, NL, "-", "-", "-", NL, NL>>

\* the for loop over enumerate(chunks), from chunk i on: (i, overlap, chunk)
RECURSIVE ChunkScores(_, _, _)
ChunkScores(chunks, query_words, i) ==
    IF i > Len(chunks) THEN <<>>
    ELSE <<[i       |-> i - 1,
            overlap |-> Cardinality(query_words \cap WordSet(chunks[i])),
            chunk   |-> chunks[i]]>>
            \o ChunkScores(chunks, query_words, i + 1)

\* the first three chunks of the document, whatever they score
RelevantChunksFirst(chunks, query) ==
    SubSeq(chunks, 1, Min(QaTopChunks, Len(chunks)))

\* chunk_scores after sort(key=overlap, reverse=True), cut to the first
\* three: the sort is stable, chunks of equal overlap keep their order
RelevantChunks(chunks, query) ==
    LET chunk_scores == ChunkScores(chunks, WordSet(query), 1)
        rank(i) == 1 + Cardinality({j \in 1..Len(chunk_scores) :
                          \/ chunk_scores[j].overlap > chunk_scores[i].overlap
                          \/ /\ chunk_scores[j].overlap = chunk_scores[i].overlap
                             /\ j < i})
    IN  [r \in 1..Min(QaTopChunks, Len(chunk_scores)) |->
            chunk_scores[CHOOSE i \in 1..Len(chunk_scores) : rank(i) = r].chunk]

\* the result: the text the service generates for the prompt, or on any
\* exception of the generation call the error result
AnswerDocumentQuestion(document_text, query, generation_ok) ==
    LET chunks          == ChunkDocument(Unpack(document_text), QaChunkSize)
        relevant_chunks == RelevantChunks(chunks, query)
        context         == JoinWith(relevant_chunks, ExcerptSeparator)
    IN  IF generation_ok
        THEN [success     |-> TRUE,
              analysis    |-> [text    |-> <<"response.text">>,
                               excerpts |-> Pack(context)],
              type        |-> "qa",
              query       |-> query,
              chunks_used |-> Len(relevant_chunks)]
        ELSE [success |-> FALSE, error |-> <<"str(e)">>]

(***************************************************************************)
(* add_document, statement by statement                                    *)
(*                                                                         *)
(* The web server runs each request in a thread of its own against the one *)
(* tool instance, and add_document holds no lock: between two of its       *)
(* statements another call can run.  A thread's call is followed from the  *)
(* existence check to its return.                                          *)
(***************************************************************************)
Threads == {1, 2}

Idle == [pc |-> "idle"]

\* the add_document call each thread makes: thread 2 names the document id
\* of thread 1, or another one
ThreadRequests ==
    [t \in Threads |->
        IF t = 1
        THEN {[content |-> ShortText, title |-> <<"T">>,
               metadata |-> NoMetadata, doc_id |-> D1, now |-> 1]}
        ELSE {[content |-> OtherText, title |-> <<"U">>,
               metadata |-> NoMetadata, doc_id |-> D1, now |-> 2],
              [content |-> OtherText, title |-> <<"U">>,
               metadata |-> NoMetadata, doc_id |-> D2, now |-> 2]}]

\* index.json between open(.., 'w') and the first write: an empty file
TruncatedFile == [d \in {None} |-> EmptyDict]

At(t, pc) == pending[t].pc = pc

Goto(t, pc) == pending' = [pending EXCEPT ![t].pc = pc]

\* the call of thread t has ended: it returned result, or it raised
Returned(t, result) ==
    pending' = [pending EXCEPT ![t] =
                   [pc |-> "returned", r |-> pending[t].r,
                    doc_id |-> pending[t].doc_id, result |-> result]]

Raised(t, statement) ==
    pending' = [pending EXCEPT ![t] =
                   [pc |-> "raised", r |-> pending[t].r,
                    doc_id |-> pending[t].doc_id, statement |-> statement]]

\* lines 138-148: the doc_id, and the existence check
Begin(t) ==
    /\ At(t, "idle")
    /\ \E r \in ThreadRequests[t] :
          LET doc_id == ResolveDocId(r.doc_id, r.content)
          IN  IF AlreadyExists(doc_id)
              THEN pending' = [pending EXCEPT ![t] =
                      [pc |-> "returned", r |-> r, doc_id |-> doc_id,
                       result |-> [success |-> FALSE, doc_id |-> doc_id,
                                   message |-> <<"Document already exists">>,
                                   existing |-> TRUE]]]
              ELSE pending' = [pending EXCEPT ![t] =
                      [pc |-> "write", r |-> r, doc_id |-> doc_id]]
    /\ UNCHANGED <<index, index_file, files, collection, last, derived>>

\* lines 150-153: the content file
WriteFile(t) ==
    /\ At(t, "write")
    /\ files' = Put(files, pending[t].doc_id, pending[t].r.content)
    /\ Goto(t, "embed")
    /\ UNCHANGED <<index, index_file, collection, last, derived>>

\* lines 155-179: chunks, embeddings, chunk ids and metadata (all local)
Embed(t) ==
    /\ At(t, "embed")
    /\ Goto(t, "add")
    /\ UNCHANGED <<index, index_file, files, collection, last, derived>>

\* lines 182-187: collection.add
AddChunks(t) ==
    /\ At(t, "add")
    /\ \E add_raises \in BOOLEAN :
          LET r == pending[t].r
              records == ChunkRecords(pending[t].doc_id, r.title, r.metadata,
                                      EmbeddedChunks[r.content])
              clash == \E i \in 1..Len(records) :
                          records[i].id \in ChunkIds(collection)
          IN  IF clash /\ add_raises
              THEN Raised(t, "add") /\ UNCHANGED collection
              ELSE /\ collection' = CollectionAdd(collection, records)
                   /\ Goto(t, "register")
    /\ UNCHANGED <<index, index_file, files, last, derived>>

\* lines 190-198: the registry entry, in memory
Register(t) ==
    /\ At(t, "register")
    /\ LET r == pending[t].r
       IN  index' = Put(index, pending[t].doc_id,
                        RegistryEntry(pending[t].doc_id, r.title, r.metadata,
                                      EmbeddedChunks[r.content], r.content,
                                      r.now))
    /\ Goto(t, "save")
    /\ UNCHANGED <<index_file, files, collection, last, derived>>

\* line 69: open(self.index_path, 'w') empties index.json; json.dump starts
\* to walk the registry as it is now
SaveOpen(t) ==
    /\ At(t, "save")
    /\ index_file' = TruncatedFile
    /\ pending' = [pending EXCEPT ![t] =
                      [pc |-> "dump", r |-> pending[t].r,
                       doc_id |-> pending[t].doc_id, snapshot |-> index]]
    /\ UNCHANGED <<index, files, collection, last, derived>>

\* line 70 and lines 202-208: json.dump (with indent, a loop in Python over
\* the dict) writes what it walked and the call returns; when another
\* thread has put an entry into the dict since the walk began, either the
\* walk was over by then, or it raises RuntimeError (dictionary changed
\* size during iteration) and the file stays as it is
SaveDump(t) ==
    /\ At(t, "dump")
    /\ \/ /\ index_file' = pending[t].snapshot
          /\ Returned(t, [success |-> TRUE, doc_id |-> pending[t].doc_id,
                          title |-> pending[t].r.title,
                          chunks_created |-> Len(EmbeddedChunks[pending[t].r.content]),
                          message |-> <<"Document '">> \o pending[t].r.title
                                         \o <<"' added successfully">>])
       \/ /\ index # pending[t].snapshot
          /\ Raised(t, "dump")
          /\ UNCHANGED index_file
    /\ UNCHANGED <<index, files, collection, last, derived>>

\* a statement of the call that reaches outside the process fails: the file
\* cannot be written, the embedding model or the collection raises, or
\* index.json cannot be opened; the exception ends the call
StepFails(t) ==
    /\ pending[t].pc \in {"write", "embed", "add", "save"}
    /\ Raised(t, pending[t].pc)
    /\ UNCHANGED <<index, index_file, files, collection, last, derived>>

(***************************************************************************)
(* The tool                                                                *)
(***************************************************************************)
\* a fresh storage directory: no index.json, no content file, no chunk
Init ==
    /\ index = [d \in {} |-> EmptyDict]
    /\ index_file = index
    /\ files = [d \in {} |-> <<>>]
    /\ collection = <<>>
    /\ last = Call("init", EmptyDict, EmptyDict, FALSE, 0, 0)
    /\ derived = [c \in {} |-> <<>>]
    /\ pending = [t \in Threads |-> Idle]

\* a caller that ingests, deletes and asks questions about documents
Next ==
    \/ AddDocument
    \/ DeleteDocument
    \/ QueryDocument

Spec == Init /\ [][Next]_vars

\* a caller that ingests, deletes and searches
NextSearch ==
    \/ AddDocument
    \/ DeleteDocument
    \/ Search
    \/ SearchAll

SpecSearch == Init /\ [][NextSearch]_vars

\* a caller that ingests, deletes, reads and compares documents
NextDocs ==
    \/ AddDocument
    \/ DeleteDocument
    \/ CompareDocuments
    \/ GetDocumentCall

SpecDocs == Init /\ [][NextDocs]_vars

\* an agent that ingests and deletes documents and asks questions through
\* the LangChain tool
NextTool ==
    \/ AddDocument
    \/ DeleteDocument
    \/ QueryDocumentToolRun

SpecTool == Init /\ [][NextTool]_vars

\* a caller that ingests, deletes, asks (query_document runs
\* search_documents) and reads documents back
NextLife ==
    \/ AddDocument
    \/ DeleteDocument
    \/ QueryDocument
    \/ GetDocumentCall

SpecLife == Init /\ [][NextLife]_vars

\* a caller that ingests and deletes documents and searches them grouped
NextGrouped ==
    \/ AddDocument
    \/ DeleteDocument
    \/ SearchAll

SpecGrouped == Init /\ [][NextGrouped]_vars

\* the chunkers on their own: a text and parameters are drawn, then
\* _chunk_text or DocumentProcessor.chunk_text is applied to them
InitChunk ==
    /\ index = [d \in {} |-> EmptyDict]
    /\ index_file = index
    /\ files = [d \in {} |-> <<>>]
    /\ collection = <<>>
    /\ derived = [c \in {} |-> <<>>]
    /\ pending = [t \in Threads |-> Idle]
    /\ \E text \in Texts, chunk_size \in ChunkSizes, overlap \in Overlaps :
          last = Call("input",
                      [text |-> text, chunk_size |-> chunk_size, overlap |-> overlap],
                      EmptyDict, FALSE, 0, 0)

ChunkTextCall ==
    /\ last.op = "input"
    /\ last' = Call("_chunk_text", last.args,
                    [chunks |-> ChunkText(last.args.text, last.args.chunk_size,
                                          last.args.overlap)],
                    FALSE, 0, 0)
    /\ UNCHANGED <<index, index_file, files, collection, derived, pending>>

FixedChunkCall ==
    /\ last.op = "input"
    /\ last.args.overlap < last.args.chunk_size
    /\ last' = Call("chunk_text", last.args,
                    [chunks  |-> FixedChunkText(last.args.text, last.args.chunk_size,
                                                last.args.overlap),
                     windows |-> FixedWindows(last.args.text, last.args.chunk_size,
                                              last.args.overlap)],
                    FALSE, 0, 0)
    /\ UNCHANGED <<index, index_file, files, collection, derived, pending>>

NextChunk ==
    \/ ChunkTextCall
    \/ FixedChunkCall

SpecChunk == InitChunk /\ [][NextChunk]_vars

\* the documents and questions handed to the 'qa' analysis: up to MaxLines
\* lines; a line is short, or so long that no other long line fits in its
\* chunk
MaxLines == 4

LongWord == Rep(<<"x">>, 750)

Lines ==
    { <<"t", "a", "x", SP, "l", "a", "w">>,
      <<"T", "a", "x", SP>> \o LongWord,
      <<"l", "a", "w", SP>> \o LongWord,
      LongWord }

RECURSIVE LinesOf(_)
LinesOf(n) ==
    IF n = 1 THEN {<<line>> : line \in Lines}
    ELSE LET shorter == LinesOf(n - 1)
         IN  shorter \cup {Append(t, line) : t \in {x \in shorter : Len(x) = n - 1},
                                             line \in Lines}

Documents == {Pack(JoinWith(lines, <<NL>>)) : lines \in LinesOf(MaxLines)}

Questions ==
    { <<"t", "a", "x", SP, "L", "A", "W">>,
      <<"l", "a", "w", SP, "l", "a", "w">>,
      <<"z">>,
      <<SP>> }

InitQa ==
    /\ index = [d \in {} |-> EmptyDict]
    /\ index_file = index
    /\ files = [d \in {} |-> <<>>]
    /\ collection = <<>>
    /\ derived = [c \in {} |-> <<>>]
    /\ pending = [t \in Threads |-> Idle]
    /\ \E document_text \in Documents, query \in Questions :
          last = Call("input",
                      [document_text |-> document_text, query |-> query],
                      EmptyDict, FALSE, 0, 0)

\* analyze_document(document_text, 'qa', query): a query that is not empty
\* goes to _answer_document_question
AnswerDocumentQuestionCall ==
    /\ last.op = "input"
    /\ last.args.query # <<>>
    /\ \E generation_ok \in BOOLEAN :
          last' = Call("_answer_document_question", last.args,
                       AnswerDocumentQuestion(last.args.document_text,
                                              last.args.query, generation_ok),
                       FALSE, 0, 1)
    /\ UNCHANGED <<index, index_file, files, collection, derived, pending>>

NextQa == AnswerDocumentQuestionCall

SpecQa == InitQa /\ [][NextQa]_vars

\* two add_document calls in two threads of the server
NextThreads ==
    \E t \in Threads :
        \/ Begin(t)
        \/ WriteFile(t)
        \/ Embed(t)
        \/ AddChunks(t)
        \/ Register(t)
        \/ SaveOpen(t)
        \/ SaveDump(t)

SpecThreads == Init /\ [][NextThreads]_vars

\* the same calls, where a statement that reaches outside the process can
\* fail
NextFailing ==
    \/ NextThreads
    \/ \E t \in Threads : StepFails(t)

SpecFailing == Init /\ [][NextFailing]_vars

(***************************************************************************)
(* Properties                                                              *)
(***************************************************************************)
Storage == <<index, index_file, files, collection>>

\* the chunks the collection files under a document id
ChunksLabelled(doc_id) ==
    SelectSeq(collection, LAMBDA c : c.metadata.doc_id = doc_id)

\* the results of the search query_document makes for a document
ScopedHits(question, doc_id) == SearchDocuments(question, QueryTopK, doc_id).results

\* the results of search_documents with a document filter
FilteredHits(query, top_k, doc_id) == SearchDocuments(query, top_k, doc_id).results

\* s[:k]
Prefix(s, k) == SubSeq(s, 1, Min(k, Len(s)))

\* C1: add_document with an explicit doc_id that is already registered
\* returns the failure result 'Document already exists' without raising,
\* and leaves the registry, its file, the content files and the collection
\* (its chunks and their number) as they were.
DuplicateAddRejected ==
    [][(/\ last'.op = "add_document"
        /\ last'.args.doc_id # None
        /\ last'.args.doc_id \in DOMAIN index)
       => (/\ ~last'.raised
           /\ last'.result.success = FALSE
           /\ last'.result.message = <<"Document already exists">>
           /\ index' = index
           /\ index_file' = index_file
           /\ files' = files
           /\ collection' = collection)]_vars

\* C1 witness: a rejected add with an explicit id whose content differs
\* from the content stored under that id.
DuplicateAddWitness ==
    /\ last.op = "add_document"
    /\ ~last.raised
    /\ last.args.doc_id # None
    /\ last.result.success = FALSE
    /\ last.args.doc_id \in DOMAIN files
    /\ files[last.args.doc_id] # last.args.content
    /\ Len(collection) >= 1

\* C2: an add_document call without doc_id, for a content that an earlier
\* such call was made with and whose document has not been deleted since,
\* reports the doc_id the earlier call reported and is rejected as a
\* duplicate, whatever its title and metadata.
DerivedIdStable ==
    [][(/\ last'.op = "add_document"
        /\ last'.args.doc_id = None
        /\ last'.args.content \in DOMAIN derived)
       => (/\ ~last'.raised
           /\ last'.result.doc_id = derived[last'.args.content]
           /\ last'.result.success = FALSE
           /\ last'.result.existing)]_vars

\* C2 witness: a second add of the same content without doc_id, under
\* another title than the registered one, was rejected.
DerivedIdWitness ==
    /\ last.op = "add_document"
    /\ ~last.raised
    /\ last.args.doc_id = None
    /\ last.result.success = FALSE
    /\ last.result.doc_id \in DOMAIN index
    /\ index[last.result.doc_id].title # last.args.title
    /\ files[last.result.doc_id] = last.args.content

\* C3: after a successful delete_document(id), a search filtered on id
\* returns no result, the collection holds exactly chunk_count (as recorded
\* at ingestion) chunks fewer, and chunks_deleted is that chunk_count.
DeleteCascade ==
    [][\A doc_id \in DocIds :
          (/\ last'.op = "delete_document"
           /\ last'.args.doc_id = doc_id
           /\ last'.result.success)
          => (/\ \A query \in Queries, top_k \in 1..MaxTopK :
                     FilteredHits(query, top_k, doc_id)' = <<>>
              /\ Len(collection') = Len(collection) - index[doc_id].chunk_count
              /\ last'.result.chunks_deleted = index[doc_id].chunk_count)]_vars

\* C4: after every completed add_document or delete_document, the
\* registered doc_ids are exactly the doc_ids the collection holds at
\* least one chunk for.
RegistryMatchesIndex ==
    (last.op \in {"add_document", "delete_document"} /\ ~last.raised)
        => DOMAIN index = {collection[i].metadata.doc_id : i \in 1..Len(collection)}

\* C5: with a document A of 5 chunks that are all more similar to the query
\* than the single chunk of a document B, semantic_search_all(query,
\* top_k=2) returns both A and B.
GroupedSearchReturnsBoth ==
    (last.op = "semantic_search_all" /\ last.args.top_k = 2)
        => \A A \in DOMAIN index, B \in DOMAIN index :
              LET sim(c) == Similarity(Distance(Encode(last.args.query), c.embedding))
                  a == ChunksLabelled(A)
                  b == ChunksLabelled(B)
              IN  (/\ A # B
                   /\ Len(a) = 5
                   /\ Len(b) = 1
                   /\ \A i \in 1..Len(a) : sim(a[i]) > sim(b[1]))
                  => {A, B} \subseteq
                        {last.result.documents[g].doc_id :
                            g \in 1..Len(last.result.documents)}

\* C6: the results of search_documents(query, top_k=k) are in non-increasing
\* similarity order, and in the same index state a call with a larger top_k
\* starts with exactly these results, in this order (a call with a smaller
\* top_k returns the first of them).
RankingMonotone ==
    last.op = "search_documents"
        => LET r == last.result.results
               a == last.args
           IN  /\ \A i \in 1..(Len(r) - 1) : r[i].similarity >= r[i + 1].similarity
               /\ \A k \in 1..(MaxTopK + 1) :
                     IF k < a.top_k
                     THEN FilteredHits(a.query, k, a.doc_filter) = Prefix(r, k)
                     ELSE Prefix(FilteredHits(a.query, k, a.doc_filter), a.top_k) = r

\* C6 witness: a search returned chunks of different similarity, and the
\* collection holds more chunks than were asked for.
RankingWitness ==
    /\ last.op = "search_documents"
    /\ Len(last.result.results) >= 2
    /\ last.result.results[1].similarity > last.result.results[2].similarity
    /\ Len(FilteredHits(last.args.query, last.args.top_k + 1, last.args.doc_filter))
          > Len(last.result.results)

\* C7: query_document for a doc_id that is not registered returns
\* success=false with a message that contains the doc_id, does not raise,
\* makes no search and no generation call, and changes nothing stored.
QueryMissingDocument ==
    [][(/\ last'.op = "query_document"
        /\ last'.args.doc_id \notin DOMAIN index)
       => (/\ ~last'.raised
           /\ last'.result.success = FALSE
           /\ Contains(last'.result.message, last'.args.doc_id)
           /\ last'.searches = 0
           /\ last'.generations = 0
           /\ Storage' = Storage)]_vars

\* C7 witness: a question about an unregistered, non-empty doc_id was
\* refused while other documents were registered and indexed.
QueryMissingWitness ==
    /\ last.op = "query_document"
    /\ last.args.doc_id \notin DOMAIN index
    /\ last.args.doc_id # <<>>
    /\ last.result.success = FALSE
    /\ DOMAIN index # {}
    /\ Len(collection) >= 1

\* C8: when the doc_id is registered and the document-scoped search finds
\* no chunk, query_document returns success=false with 'No relevant content
\* found in document' (not the not-found message), without a generation
\* call and without raising.
QueryNoRelevantContent ==
    [][(/\ last'.op = "query_document"
        /\ last'.args.doc_id \in DOMAIN index
        /\ ScopedHits(last'.args.question, last'.args.doc_id) = <<>>)
       => (/\ ~last'.raised
           /\ last'.result
                 = [success |-> FALSE,
                    message |-> <<"No relevant content found in document">>]
           /\ last'.result.message # NotFoundMessage(last'.args.doc_id)
           /\ last'.generations = 0)]_vars

\* C8 witness: a registered document for which the scoped search found
\* nothing was asked about.
QueryNoContentWitness ==
    /\ last.op = "query_document"
    /\ last.args.doc_id \in DOMAIN index
    /\ ScopedHits(last.args.question, last.args.doc_id) = <<>>
    /\ last.result.success = FALSE
    /\ last.searches = 1

\* C9: when the scoped search finds at least one chunk and the generation
\* call fails, query_document returns success=false.
GenerationFailureReported ==
    (/\ last.op = "query_document"
     /\ last.args.doc_id \in DOMAIN index
     /\ ScopedHits(last.args.question, last.args.doc_id) # <<>>
     /\ ~last.args.generation_ok)
        => last.result.success = FALSE

\* C10: when the scoped search finds at least one chunk and the generation
\* call fails, query_document does not raise and its result carries, as
\* sources, the list the scoped search returned.
GenerationFailureKeepsSources ==
    [][(/\ last'.op = "query_document"
        /\ last'.args.doc_id \in DOMAIN index
        /\ ScopedHits(last'.args.question, last'.args.doc_id) # <<>>
        /\ ~last'.args.generation_ok)
       => (/\ ~last'.raised
           /\ "sources" \in DOMAIN last'.result
           /\ last'.result.sources
                 = ScopedHits(last'.args.question, last'.args.doc_id)
           /\ last'.result.sources # <<>>)]_vars

\* C10 witness: a failed generation returned with several chunks found.
GenerationFailureWitness ==
    /\ last.op = "query_document"
    /\ ~last.args.generation_ok
    /\ "sources" \in DOMAIN last.result
    /\ Len(last.result.sources) >= 2
    /\ ~last.result.answer.generated

\* C11: compare_documents with a document that is not registered returns
\* success=false without raising and without a generation call, changes
\* nothing stored, and its message contains doc_id1 when the first document
\* is missing (whether or not the second is registered) and doc_id2 when
\* only the second is missing.
CompareMissingNamed ==
    [][(/\ last'.op = "compare_documents"
        /\ \/ last'.args.doc_id1 \notin DOMAIN index
           \/ last'.args.doc_id2 \notin DOMAIN index)
       => /\ ~last'.raised
          /\ last'.result.success = FALSE
          /\ last'.generations = 0
          /\ last'.args.doc_id1 \notin DOMAIN index
                => Contains(last'.result.message, last'.args.doc_id1)
          /\ last'.args.doc_id1 \in DOMAIN index
                => Contains(last'.result.message, last'.args.doc_id2)
          /\ UNCHANGED Storage]_vars

CompareMissingWitness ==
    /\ last.op = "compare_documents"
    /\ last.args.doc_id1 \in DOMAIN index
    /\ last.args.doc_id2 \notin DOMAIN index
    /\ last.args.doc_id2 # <<>>
    /\ ~Contains(last.args.doc_id1, last.args.doc_id2)
    /\ last.result.success = FALSE
    /\ Contains(last.result.message, last.args.doc_id2)

\* the paragraphs of a text as the chunker reads them, each without its
\* outer whitespace, the blank ones left out
Normal(paragraphs) ==
    SelectSeq([i \in 1..Len(paragraphs) |-> Strip(paragraphs[i])],
              LAMBDA para : para # <<>>)

\* the overlap seed chunk i of a chunking starts with
SeedOf(chunks, i, overlap) ==
    IF i = 1 THEN <<>> ELSE OverlapText(chunks[i - 1].text, overlap)

\* the paragraphs read back from chunks i.. with each chunk's seed removed
RECURSIVE Recovered(_, _, _)
Recovered(chunks, i, overlap) ==
    IF i > Len(chunks) THEN <<>>
    ELSE LET text == chunks[i].text
             body == SubSeq(text, Len(SeedOf(chunks, i, overlap)) + 1, Len(text))
         IN  Normal(SplitParagraphs(body)) \o Recovered(chunks, i + 1, overlap)

\* C12: a successful add_document of a content of at most 500 characters
\* reports chunks_created = 1 and leaves exactly one chunk filed under the
\* document's id in the collection.
SmallContentOneChunk ==
    [][(/\ last'.op = "add_document"
        /\ ~last'.raised
        /\ last'.result.success
        /\ PLen(last'.args.content) <= DefaultChunkSize)
       => /\ last'.result.chunks_created = 1
          /\ \A doc_id \in DocIds :
                last'.result.doc_id = doc_id
                    => Len(ChunksLabelled(doc_id)') = 1]_vars

\* C13: for a non-empty text, the chunks of _chunk_text read in order, each
\* without the overlap seed it starts with, give back the paragraphs of the
\* text (without their outer whitespace, blank paragraphs left out), each
\* once and in the original order.
ParagraphsRecovered ==
    (last.op = "_chunk_text" /\ last.args.text # <<>>)
        => /\ \A i \in 2..Len(last.result.chunks) :
                 Prefix(last.result.chunks[i].text,
                        Len(SeedOf(last.result.chunks, i, last.args.overlap)))
                    = SeedOf(last.result.chunks, i, last.args.overlap)
           /\ Recovered(last.result.chunks, 1, last.args.overlap)
                 = Normal(SplitParagraphs(last.args.text))

ParagraphsRecoveredWitness ==
    /\ last.op = "_chunk_text"
    /\ Len(last.result.chunks) >= 3
    /\ Len(Normal(SplitParagraphs(last.args.text))) >= 3
    /\ SeedOf(last.result.chunks, 2, last.args.overlap) # <<>>
    /\ SeedOf(last.result.chunks, 3, last.args.overlap) # <<>>

\* C14: _chunk_text returns no chunk for an empty text and for a text of
\* whitespace only.
BlankTextNoChunk ==
    (last.op = "_chunk_text" /\ Strip(last.args.text) = <<>>)
        => (~last.raised /\ last.result.chunks = <<>>)

\* C15: DocumentProcessor.chunk_text returns no chunk, without raising, for
\* an empty text and for a text of whitespace only, and no chunk it returns
\* for any text is empty or of whitespace only.
FixedChunkerNoBlankChunk ==
    last.op = "chunk_text"
        => /\ ~last.raised
           /\ Strip(last.args.text) = <<>> => last.result.chunks = <<>>
           /\ \A i \in 1..Len(last.result.chunks) :
                 Strip(last.result.chunks[i]) # <<>>

FixedChunkerWitness ==
    /\ last.op = "chunk_text"
    /\ last.args.chunk_size = 2
    /\ last.args.overlap = 0
    /\ Strip(last.args.text) # <<>>
    /\ Len(last.args.text) = 6
    /\ Strip(SubSeq(last.args.text, 3, 4)) = <<>>
    /\ Len(last.result.chunks) = 2

\* the paragraphs of the text of the last call that are longer than its
\* chunk_size, by position; those whose text also stands in another
\* paragraph are left out, a chunk that holds the other would count for them
LongParagraphs ==
    LET paragraphs == SplitParagraphs(last.args.text)
    IN  {p \in 1..Len(paragraphs) :
            /\ Len(paragraphs[p]) > last.args.chunk_size
            /\ \A q \in 1..Len(paragraphs) :
                  q # p => ~Contains(paragraphs[q], Strip(paragraphs[p]))}

\* the chunks of the last call whose text holds paragraph p whole
ChunksHolding(p) ==
    {i \in 1..Len(last.result.chunks) :
        Contains(last.result.chunks[i].text,
                 Strip(SplitParagraphs(last.args.text)[p]))}

\* C16 as stated: the text of a paragraph longer than chunk_size appears
\* whole inside exactly one chunk of _chunk_text.
LongParagraphInOneChunk ==
    last.op = "_chunk_text"
        => \A p \in LongParagraphs : Cardinality(ChunksHolding(p)) = 1

\* C16: the text of a paragraph longer than chunk_size (without its outer
\* whitespace) appears whole inside at least one chunk of _chunk_text,
\* wherever the paragraph stands in the text.
LongParagraphWhole ==
    last.op = "_chunk_text"
        => \A p \in LongParagraphs : ChunksHolding(p) # {}

LongParagraphWitness ==
    /\ last.op = "_chunk_text"
    /\ last.args.overlap = 5
    /\ LET paragraphs == SplitParagraphs(last.args.text)
       IN  /\ Len(paragraphs) = 3
           /\ 2 \in LongParagraphs
           /\ Strip(paragraphs[2]) # <<>>
           /\ Strip(paragraphs[1]) # <<>>
           /\ Cardinality(ChunksHolding(2)) = 2

\* the call of thread t has ended
Ended(t) == pending[t].pc \in {"returned", "raised"}

\* what is stored under a document id anywhere: a content file, a chunk
\* (by its label or by its id), a registry entry in memory or in index.json
StoredFor(doc_id) ==
    \/ doc_id \in DOMAIN files
    \/ doc_id \in DOMAIN index
    \/ doc_id \in DOMAIN index_file
    \/ \E i \in 1..Len(collection) :
          \/ collection[i].metadata.doc_id = doc_id
          \/ Prefix(collection[i].id, Len(doc_id) + 1) = doc_id \o <<"_">>

\* C17: when an add_document call ends with a failure of a statement after
\* the existence check (and no other call is under way), nothing is stored
\* for its doc_id: no content file, no chunk, no registry entry in memory
\* or in index.json.
FailedAddLeavesNothing ==
    \A t \in Threads :
        (/\ pending[t].pc = "raised"
         /\ \A u \in Threads \ {t} : pending[u].pc = "idle")
            => ~StoredFor(pending[t].doc_id)

\* C18: when two add_document calls for different doc_ids have run in two
\* threads and both have ended, both returned success, and the registry in
\* memory, index.json and the collection hold both documents with all of
\* their chunks.
ConcurrentAddsSafe ==
    (/\ \A t \in Threads : Ended(t)
     /\ pending[1].doc_id # pending[2].doc_id)
        => \A t \in Threads :
              /\ pending[t].pc = "returned"
              /\ pending[t].result.success
              /\ pending[t].doc_id \in DOMAIN index
              /\ pending[t].doc_id \in DOMAIN index_file
              /\ Len(ChunksLabelled(pending[t].doc_id))
                    = Len(EmbeddedChunks[pending[t].r.content])

\* C19: the existence check of add_document and the registration are two
\* separate steps: a call is rejected as a duplicate exactly when the
\* registry holds its doc_id at the moment of its check, so a call for the
\* same doc_id is rejected when it checks after the other has registered,
\* and is accepted, as the other was, when it checks before.
CheckThenActRace ==
    [][\A t \in Threads :
          (pending[t].pc = "idle" /\ pending'[t].pc # "idle")
             => /\ (/\ pending'[t].pc = "returned"
                    /\ ~pending'[t].result.success
                    /\ pending'[t].result.existing)
                      <=> pending'[t].doc_id \in DOMAIN index
                /\ pending'[t].pc # "returned" => pending'[t].pc = "write"
                /\ UNCHANGED Storage]_vars

\* both calls for one doc_id passed the check and returned success
DuplicateAcceptedWitness ==
    /\ \A t \in Threads :
          /\ pending[t].pc = "returned"
          /\ pending[t].result.success
    /\ pending[1].doc_id = pending[2].doc_id
    /\ pending[1].r.content # pending[2].r.content

\* doc_ids with underscores and digits, and chunk indexes
IdSamples ==
    {<<>>, <<"d">>, <<"d", "_", "1">>, <<"d", "1">>, <<"d", "_", "1", "_", "0">>,
     <<"1">>, <<"_">>, <<"d", "_">>}

\* C20: no two chunks of the collection share an id, the id
\* '<doc_id>_<index>' is different for different pairs of doc_id and index,
\* and the chunks filed under a registered document are, in the order they
\* were stored, those of index 0 .. chunk_count - 1.
ChunkIdsUniqueAndOrdered ==
    /\ \A i, j \in 1..Len(collection) :
          i # j => collection[i].id # collection[j].id
    /\ \A d1 \in IdSamples, d2 \in IdSamples, i \in 0..11, j \in 0..11 :
          ChunkId(d1, i) = ChunkId(d2, j) => (d1 = d2 /\ i = j)
    /\ \A doc_id \in DOMAIN index :
          LET chunks == ChunksLabelled(doc_id)
          IN  /\ Len(chunks) = index[doc_id].chunk_count
              /\ \A i \in 1..Len(chunks) :
                    /\ chunks[i].metadata.chunk_index = i - 1
                    /\ chunks[i].id = ChunkId(doc_id, i - 1)

\* C21: delete_document and get_document for a doc_id that is not
\* registered return success=false with a message that contains the doc_id,
\* do not raise, and leave the registry, index.json, the collection and the
\* content files as they were.
NotFoundIsAResult ==
    [][(/\ last'.op \in {"delete_document", "get_document"}
        /\ last'.args.doc_id \notin DOMAIN index)
       => /\ ~last'.raised
          /\ last'.result.success = FALSE
          /\ Contains(last'.result.message, last'.args.doc_id)
          /\ Contains(last'.result.message, <<" not found">>)
          /\ UNCHANGED Storage]_vars

NotFoundWitness ==
    /\ last.op = "delete_document"
    /\ last.args.doc_id \notin DOMAIN index
    /\ last.args.doc_id \in DOMAIN files
    /\ last.result.success = FALSE
    /\ Len(collection) >= 1
    /\ DOMAIN index # {}

\* C22: when query_document succeeds with one or more sources,
\* QueryDocumentTool._run returns its formatted string, with one citation
\* per source, without raising.
ToolCitesEverySource ==
    LET result == QueryDocumentCall(last.args.doc_id, last.args.question,
                                    last.args.generation_ok).result
    IN  (/\ last.op = "QueryDocumentTool"
         /\ result.success
         /\ Len(result.sources) >= 1)
            => /\ ~last.raised
               /\ Len(last.result.citations) = Len(result.sources)

\* C23: whatever metadata the caller supplies, every chunk a successful
\* add_document stores carries in its metadata the doc_id the document was
\* ingested under, that document's title and the chunk's own index.
ChunksCarryOwner ==
    [][(/\ last'.op = "add_document"
        /\ ~last'.raised
        /\ last'.result.success)
       => \A doc_id \in DocIds :
             last'.result.doc_id = doc_id
                => \A i \in 1..Len(collection') :
                      (\A j \in 1..Len(collection) :
                          collection[j].id # collection'[i].id)
                          => /\ collection'[i].metadata.doc_id = doc_id
                             /\ collection'[i].metadata.title = last'.args.title
                             /\ collection'[i].id
                                   = ChunkId(doc_id,
                                             collection'[i].metadata.chunk_index)]_vars

\* the last overlap // 5 words of a closed chunk, none when the chunk has no
\* more words than that
FloorSeed(closed, overlap) ==
    LET words == Words(closed)
        k     == overlap \div 5
    IN  IF Len(words) > k /\ k > 0
        THEN Join(SubSeq(words, Len(words) - k + 1, Len(words)))
        ELSE <<>>

\* the paragraphs read back from chunks i.. when each chunk after the first
\* starts with the FloorSeed of the chunk before it
RECURSIVE RecoveredFloor(_, _, _)
RecoveredFloor(chunks, i, overlap) ==
    IF i > Len(chunks) THEN <<>>
    ELSE LET text == chunks[i].text
             seed == IF i = 1 THEN <<>>
                     ELSE FloorSeed(chunks[i - 1].text, overlap)
             body == SubSeq(text, Len(seed) + 1, Len(text))
         IN  Normal(SplitParagraphs(body)) \o RecoveredFloor(chunks, i + 1, overlap)

\* C24: for every overlap >= 0, each chunk of _chunk_text after the first
\* starts with exactly the last floor(overlap/5) words of the chunk closed
\* before it (with nothing when that chunk has no more words than that, so
\* with nothing when overlap < 5), followed by its own paragraphs.
SeedIsFloorOfOverlap ==
    (last.op = "_chunk_text" /\ last.args.text # <<>>)
        => /\ \A i \in 2..Len(last.result.chunks) :
                 LET seed == FloorSeed(last.result.chunks[i - 1].text,
                                       last.args.overlap)
                 IN  Prefix(last.result.chunks[i].text, Len(seed)) = seed
           /\ RecoveredFloor(last.result.chunks, 1, last.args.overlap)
                 = Normal(SplitParagraphs(last.args.text))

\* C25: when every paragraph of the text is at most chunk_size characters
\* long, every chunk of _chunk_text, its overlap seed included, has a text
\* of at most chunk_size characters.
ChunkWithinSize ==
    (/\ last.op = "_chunk_text"
     /\ \A p \in 1..Len(SplitParagraphs(last.args.text)) :
           Len(SplitParagraphs(last.args.text)[p]) <= last.args.chunk_size)
        => \A i \in 1..Len(last.result.chunks) :
              Len(last.result.chunks[i].text) <= last.args.chunk_size

QuerySourcesOwnDocument ==
    (/\ last.op = "query_document"
     /\ ~last.raised
     /\ last.result.success)
        => /\ Len(last.result.sources) <= QueryTopK
           /\ \A i \in 1..Len(last.result.sources) :
                 /\ last.result.sources[i].doc_id = last.args.doc_id
                 /\ \E k \in 0..(index[last.args.doc_id].chunk_count - 1) :
                       last.result.sources[i].chunk_id
                           = ChunkId(last.args.doc_id, k)

\* the groups of a grouped search over the chunks hits: at most top_k of
\* them, of pairwise distinct doc_ids, in non-increasing max_similarity
\* order, each holding exactly the hits labelled with its doc_id, their
\* number and their largest similarity
GroupsWellFormed(documents, hits, top_k) ==
    /\ Len(documents) <= top_k
    /\ \A g, h \in 1..Len(documents) :
          /\ g # h => documents[g].doc_id # documents[h].doc_id
          /\ g < h => documents[g].max_similarity >= documents[h].max_similarity
    /\ \A g \in 1..Len(documents) :
          LET group == documents[g]
          IN  /\ group.top_chunks
                    = SelectSeq(hits, LAMBDA x : x.doc_id = group.doc_id)
              /\ group.chunk_count = Len(group.top_chunks)
              /\ \E i \in 1..Len(group.top_chunks) :
                    group.top_chunks[i].similarity = group.max_similarity
              /\ \A i \in 1..Len(group.top_chunks) :
                    /\ group.top_chunks[i].doc_id = group.doc_id
                    /\ group.top_chunks[i].similarity <= group.max_similarity

\* C28: semantic_search_all(query, top_k) groups the 2*top_k chunks nearest
\* to the query: at most top_k groups of pairwise distinct doc_ids in
\* non-increasing max_similarity order, each with the chunks of its doc_id,
\* chunk_count their number and max_similarity their largest similarity.
\* When a chunk was found, total_docs_found is the number of groups; when
\* none was found, documents is empty and the result has no
\* total_docs_found.
GroupedSearchShape ==
    last.op = "semantic_search_all"
        => LET hits == FilteredHits(last.args.query, 2 * last.args.top_k, None)
           IN  /\ GroupsWellFormed(last.result.documents, hits, last.args.top_k)
               /\ IF hits = <<>>
                  THEN /\ last.result.documents = <<>>
                       /\ "total_docs_found" \notin DOMAIN last.result
                  ELSE /\ Len(last.result.documents) >= 1
                       /\ last.result.total_docs_found
                             = Len(last.result.documents)

\* C28 as stated: total_docs_found is the number of groups in every result.
GroupedSearchCountsGroups ==
    last.op = "semantic_search_all"
        => /\ GroupsWellFormed(last.result.documents,
                               FilteredHits(last.args.query,
                                            2 * last.args.top_k, None),
                               last.args.top_k)
           /\ "total_docs_found" \in DOMAIN last.result
           /\ last.result.total_docs_found = Len(last.result.documents)

\* two groups came back, the second with several chunks and a smaller
\* max_similarity, and more chunks are stored than were asked for
GroupedSearchWitness ==
    /\ last.op = "semantic_search_all"
    /\ Len(last.result.documents) = 2
    /\ last.result.documents[1].max_similarity
          > last.result.documents[2].max_similarity
    /\ last.result.documents[2].chunk_count >= 2
    /\ Len(collection) > 2 * last.args.top_k

\* the number of distinct lower-cased words each chunk shares with the query
SharedWords(chunks, query) ==
    [i \in 1..Len(chunks) |->
        Cardinality(WordSet(query) \cap WordSet(chunks[i]))] \o <<>>

WindowsCover(windows, text, chunk_size, overlap) ==
    /\ \A i \in 1..(Len(windows) - 1) :
          windows[i + 1].start - windows[i].start = chunk_size - overlap
    /\ \A i \in 1..Len(windows) :
          /\ windows[i].start < windows[i].end
          /\ windows[i].end - windows[i].start <= chunk_size
    /\ \A p \in 0..(Len(text) - 1) :
          \E i \in 1..Len(windows) :
              windows[i].start <= p /\ p < windows[i].end

\* C30: for chunk_size >= 1 and 0 <= overlap < chunk_size,
\* DocumentProcessor.chunk_text ends after at most len(text) windows. For a
\* text that is not blank, successive windows start chunk_size - overlap
\* apart, each is at most chunk_size long, every position of the text is in
\* a window, and the chunks are the windows stripped, the blank ones left
\* out. For an empty or blank text no window is taken and no chunk returned.
FixedWindowsCover ==
    (/\ last.op = "chunk_text"
     /\ last.args.chunk_size >= 1
     /\ 0 <= last.args.overlap
     /\ last.args.overlap < last.args.chunk_size)
        => LET text    == last.args.text
               windows == last.result.windows
           IN  IF Strip(text) = <<>>
               THEN windows = <<>> /\ last.result.chunks = <<>>
               ELSE /\ Len(windows) >= 1
                    /\ Len(windows) <= Len(text)
                    /\ WindowsCover(windows, text, last.args.chunk_size,
                                    last.args.overlap)
                    /\ last.result.chunks
                          = SelectSeq([i \in 1..Len(windows) |->
                                          Strip(SubSeq(text, windows[i].start + 1,
                                                       windows[i].end))],
                                      LAMBDA chunk : chunk # <<>>)

\* C30 as stated: the windows cover every position of every text.
FixedWindowsCoverEveryText ==
    (/\ last.op = "chunk_text"
     /\ last.args.chunk_size >= 1
     /\ 0 <= last.args.overlap
     /\ last.args.overlap < last.args.chunk_size)
        => /\ Len(last.result.windows) <= Len(last.args.text)
           /\ WindowsCover(last.result.windows, last.args.text,
                           last.args.chunk_size, last.args.overlap)

\* several overlapping windows, the last one shorter than chunk_size, and a
\* blank window that gave no chunk
FixedWindowsWitness ==
    /\ last.op = "chunk_text"
    /\ last.args.overlap >= 1
    /\ Len(last.result.windows) >= 4
    /\ Len(last.result.chunks) < Len(last.result.windows)
    /\ LET w == last.result.windows[Len(last.result.windows)]
       IN  w.end - w.start < last.args.chunk_size

====
